---- MODULE Spec2Model ----
(***************************************************************************)
(* Placement Advice / Modification Advice issuance of the transport        *)
(* booking administration tool: canonical snapshot, content hash, change   *)
(* detection, letter sequencing and the issuance route, together with the  *)
(* booking routes that mutate the state the snapshot is projected from.    *)
(***************************************************************************)
EXTENDS Integers, Sequences, FiniteSets, TLC

(***************************************************************************)
(* Bounds of the model.                                                    *)
(***************************************************************************)
\* rows the booking_letter table may hold before issuance is no longer explored
MaxLetters == 3

(***************************************************************************)
(* Reference data: rows of the tables the booking points into.  They are   *)
(* not changed by any route modelled here.                                 *)
(***************************************************************************)
\* the bookings that exist when the model starts
InitialBookingIds == {1}

Date(y, m, d) == [y |-> y, m |-> m, d |-> d]

\* date.isoformat(): zero-padded YYYY-MM-DD
Pad2(n) == IF n < 10 THEN "0" \o ToString(n) ELSE ToString(n)

Isoformat(dt) == ToString(dt.y) \o "-" \o Pad2(dt.m) \o "-" \o Pad2(dt.d)

\* chronological order of two dates (datetime.date.__lt__)
DateLess(a, b) ==
    \/ a.y < b.y
    \/ a.y = b.y /\ a.m < b.m
    \/ a.y = b.y /\ a.m = b.m /\ a.d < b.d

AgreementRows ==
    [a \in {1, 2} |->
        [id |-> a, company_id |-> 1,
         loa_number |-> IF a = 1 THEN "LOA/2024/17" ELSE "LOA/2024/31",
         placement_ref_prefix |-> "ED/RS"]]

CompanyRows == [c \in {1} |-> [id |-> c, name |-> "Acme Carriers"]]

RouteRows == [r \in {1, 2} |-> [id |-> r, total_km |-> IF r = 1 THEN 410 ELSE 520]]

LorryRows ==
    [l \in {1, 2, 3} |-> IF l = 1 THEN [id |-> 1, capacity |-> 10, carrier_size |-> 20]
                         ELSE IF l = 2 THEN [id |-> 2, capacity |-> 16, carrier_size |-> 32]
                         ELSE [id |-> 3, capacity |-> 10, carrier_size |-> 32]]

LocationRows ==
    [l \in {1, 2} |-> IF l = 1 THEN [id |-> 1, code |-> "ED"] ELSE [id |-> 2, code |-> "MAS"]]

AuthorityRows ==
    [a \in {1, 2, 3} |->
        IF a = 1 THEN [id |-> 1, authority_title |-> "SSE/ELS/ED", location_id |-> 1]
        ELSE IF a = 2 THEN [id |-> 2, authority_title |-> "SSE/ELS/MAS", location_id |-> 2]
        ELSE [id |-> 3, authority_title |-> "SSE/TRD/ED", location_id |-> 1]]

\* booking_authority rows of booking b, in the order the relationship yields them
BookingAuthorityRows(b) ==
    << [id |-> 2 * b - 1, booking_id |-> b, authority_id |-> 1, role |-> "LOADING", sequence_index |-> 1],
       [id |-> 2 * b, booking_id |-> b, authority_id |-> 2, role |-> "UNLOADING", sequence_index |-> 1] >>

(***************************************************************************)
(* State.                                                                  *)
(***************************************************************************)
VARIABLES
    bookings,     \* booking table: id -> row, with its material tables
    letters,      \* booking_letter table: sequence of committed rows, in insertion order
    attachments,  \* booking_letter_attachment table: sequence of committed rows
    resp,         \* per booking: the response of the last request handled for it
    reqs          \* in-flight issuance requests (overlapping requests only)

vars == <<bookings, letters, attachments, resp, reqs>>

(***************************************************************************)
(* Helpers over sequences.                                                 *)
(***************************************************************************)
RECURSIVE InsertBySequenceIndex(_, _)
\* insert x after every element whose key is <= x's: Python's stable sorted()
\* with key=lambda x: x.sequence_index or 0
InsertBySequenceIndex(s, x) ==
    IF s = <<>> THEN <<x>>
    ELSE IF s[Len(s)].sequence_index <= x.sequence_index THEN Append(s, x)
    ELSE Append(InsertBySequenceIndex(SubSeq(s, 1, Len(s) - 1), x), s[Len(s)])

RECURSIVE SortedBySequenceIndex(_)
SortedBySequenceIndex(s) ==
    IF s = <<>> THEN <<>>
    ELSE InsertBySequenceIndex(SortedBySequenceIndex(SubSeq(s, 1, Len(s) - 1)), s[Len(s)])

\* tuple order of the key ((m.sequence_index or 0), (m.id or 0))
TableKeyLeq(a, b) ==
    \/ a.sequence_index < b.sequence_index
    \/ a.sequence_index = b.sequence_index /\ a.id <= b.id

RECURSIVE InsertByTableKey(_, _)
InsertByTableKey(s, x) ==
    IF s = <<>> THEN <<x>>
    ELSE IF TableKeyLeq(s[Len(s)], x) THEN Append(s, x)
    ELSE Append(InsertByTableKey(SubSeq(s, 1, Len(s) - 1), x), s[Len(s)])

RECURSIVE SortedByTableKey(_)
SortedByTableKey(s) ==
    IF s = <<>> THEN <<>>
    ELSE InsertByTableKey(SortedByTableKey(SubSeq(s, 1, Len(s) - 1)), s[Len(s)])

RECURSIVE SumAmounts(_)
\* sum of float(line.amount) over the lines whose amount is not None
SumAmounts(lines) ==
    IF lines = <<>> THEN 0
    ELSE (IF lines[1].amount = <<>> THEN 0 ELSE lines[1].amount[1]) + SumAmounts(Tail(lines))

(***************************************************************************)
(* Python values.  Optional numbers and optional strings of the payload    *)
(* are <<>> (None) or <<v>>; an absent JSON member is Null.                *)
(***************************************************************************)
None == <<>>

Some(v) == <<v>>

Null == [null |-> TRUE]

\* Python truthiness of a stored JSON member: None and {} are falsy
Truthy(v) == v # Null

(***************************************************************************)
(* Canonical snapshot and content hash.                                    *)
(***************************************************************************)
\* variant: cancelled bookings are not counted
ComputeTripSerialAmongActive(bks, b) ==
    Cardinality({x \in DOMAIN bks : /\ bks[x].agreement_id = bks[b].agreement_id
                                     /\ x <= b
                                     /\ (x = b \/ bks[x].status # "CANCELLED")})

ComputeTripSerial(bks, b) ==
    Cardinality({x \in DOMAIN bks : bks[x].agreement_id = bks[b].agreement_id /\ x <= b})

\* variant: the status is compared with a misspelt literal
IsCancelledMisspelt(bk) == bk.status = "CANCELED"

\* Booking.is_cancelled
IsCancelled(bk) == bk.status = "CANCELLED"

BookingRequiresAttachmentPdf(bk) ==
    \E i \in 1..Len(bk.material_tables) : bk.material_tables[i].mode = "ATTACHED"

\* every booking_authority row of the model has its authority row, so the
\* branch for a missing authority is not taken
CanonAuthority(ba) ==
    [authority_id |-> ba.authority_id,
     role |-> ba.role,
     sequence_index |-> ba.sequence_index,
     title |-> AuthorityRows[ba.authority_id].authority_title,
     location_code |-> LocationRows[AuthorityRows[ba.authority_id].location_id].code]

CanonMaterialLine(ln) ==
    [sequence_index |-> ln.sequence_index,
     description |-> ln.description,
     unit |-> ln.unit,
     quantity |-> ln.quantity,
     rate |-> ln.rate,
     amount |-> ln.amount]

CanonMaterialTable(mt) ==
    LET lines == SortedBySequenceIndex(mt.lines)
    IN [id |-> mt.id,
        sequence_index |-> mt.sequence_index,
        booking_authority_id |-> mt.booking_authority_id,
        mode |-> IF mt.mode = "" THEN "ITEM" ELSE mt.mode,
        total_quantity |-> mt.total_quantity,
        total_quantity_unit |-> mt.total_quantity_unit,
        total_amount |-> mt.total_amount,
        lines |-> [i \in 1..Len(lines) |-> CanonMaterialLine(lines[i])]]

IsLoading(ba) == ba.role = "LOADING"

IsUnloading(ba) == ba.role = "UNLOADING"

BuildCanonicalSnapshotForPlacement(bks, b, letter_date_val) ==
    LET bk == bks[b]
        loading == SortedBySequenceIndex(SelectSeq(bk.booking_authorities, IsLoading))
        unloading == SortedBySequenceIndex(SelectSeq(bk.booking_authorities, IsUnloading))
        mts == SortedByTableKey(bk.material_tables)
    IN [booking_id |-> bk.id,
        agreement_id |-> bk.agreement_id,
        trip_serial |-> ComputeTripSerial(bks, b),
        letter_date |-> Isoformat(letter_date_val),
        placement_date |-> IF bk.placement_date # None
                             THEN Some(Isoformat(bk.placement_date[1])) ELSE None,
        loa_number |-> IF bk.agreement_id \in DOMAIN AgreementRows
                         THEN Some(AgreementRows[bk.agreement_id].loa_number) ELSE None,
        placement_ref_prefix |-> IF bk.agreement_id \in DOMAIN AgreementRows
                                   THEN Some(AgreementRows[bk.agreement_id].placement_ref_prefix)
                                   ELSE None,
        company_name |-> IF bk.company_id \in DOMAIN CompanyRows
                           THEN Some(CompanyRows[bk.company_id].name) ELSE None,
        route_id |-> bk.route_id,
        route_total_km |-> IF bk.route_id \in DOMAIN RouteRows
                             THEN Some(RouteRows[bk.route_id].total_km) ELSE None,
        lorry_capacity |-> IF bk.lorry_id \in DOMAIN LorryRows
                             THEN Some(LorryRows[bk.lorry_id].capacity) ELSE None,
        lorry_carrier_size |-> IF bk.lorry_id \in DOMAIN LorryRows
                                 THEN Some(LorryRows[bk.lorry_id].carrier_size) ELSE None,
        loading |-> [i \in 1..Len(loading) |-> CanonAuthority(loading[i])],
        unloading |-> [i \in 1..Len(unloading) |-> CanonAuthority(unloading[i])],
        materials |-> [i \in 1..Len(mts) |-> CanonMaterialTable(mts[i])],
        requires_attachment |-> BookingRequiresAttachmentPdf(bk)]

\* variant: the materials are left out of the digested text as well
HashCanonicalSnapshotWithoutMaterials(payload) ==
    [k \in (DOMAIN payload) \ {"letter_date", "materials"} |-> payload[k]]

\* variant: letter_date is not removed before the payload is digested
HashCanonicalSnapshotWithDate(payload) == payload

\* The digest of the sorted-key JSON text of the payload without letter_date.
\* SHA-256 is taken to be collision free, so the digest is identified with
\* the text it digests: the payload restricted to its other members.
HashCanonicalSnapshot(payload) ==
    [k \in (DOMAIN payload) \ {"letter_date"} |-> payload[k]]

(***************************************************************************)
(* Diff between two canonical payloads, as the issuance route computes it. *)
(***************************************************************************)
\* _safe_text of an optional value: "-" for None, str(v) for a number, the
\* text itself (or "-" when blank) for a string
SafeTextNum(v) == IF v = None THEN "-" ELSE ToString(v[1])

SafeTextStr(v) == IF v = None THEN "-" ELSE IF v[1] = "" THEN "-" ELSE v[1]

FmtQtyUnit(qty, unit) ==
    IF qty = None /\ unit = "" THEN ""
    ELSE IF qty = None THEN unit
    ELSE IF unit = "" THEN ToString(qty[1])
    ELSE ToString(qty[1]) \o " " \o unit

RECURSIVE JoinWith(_, _)
JoinWith(parts, sep) ==
    IF parts = <<>> THEN ""
    ELSE IF Len(parts) = 1 THEN parts[1]
    ELSE parts[1] \o sep \o JoinWith(Tail(parts), sep)

SummarizeAuthorityList(canon_list) ==
    IF canon_list = <<>> THEN "-"
    ELSE JoinWith([i \in 1..Len(canon_list) |->
                      IF canon_list[i].location_code # "" THEN canon_list[i].location_code
                      ELSE IF canon_list[i].title # "" THEN canon_list[i].title ELSE "-"],
                  ", ")

SummarizeMaterials(canon_mts) ==
    IF canon_mts = <<>> THEN "-"
    ELSE JoinWith([i \in 1..Len(canon_mts) |->
                      LET mt == canon_mts[i]
                          qty_txt == FmtQtyUnit(mt.total_quantity, mt.total_quantity_unit)
                      IN (IF mt.mode = "" THEN "ITEM" ELSE mt.mode)
                         \o " | Qty: " \o (IF qty_txt = "" THEN "-" ELSE qty_txt)
                         \o " | Amt: " \o SafeTextNum(mt.total_amount)],
                  " ; ")

\* ch(label, old, new): one entry when old != new, none otherwise
Ch(label, differs, old, new) ==
    IF differs THEN << [field |-> label, old |-> old, new |-> new] >> ELSE <<>>

ComputeModDiff(baseline, current) ==
    Ch("Placement Date", baseline.placement_date # current.placement_date,
       SafeTextStr(baseline.placement_date), SafeTextStr(current.placement_date))
    \o Ch("Loading Authorities",
          SummarizeAuthorityList(baseline.loading) # SummarizeAuthorityList(current.loading),
          SummarizeAuthorityList(baseline.loading), SummarizeAuthorityList(current.loading))
    \o Ch("Unloading Authorities",
          SummarizeAuthorityList(baseline.unloading) # SummarizeAuthorityList(current.unloading),
          SummarizeAuthorityList(baseline.unloading), SummarizeAuthorityList(current.unloading))
    \o Ch("Materials Summary",
          SummarizeMaterials(baseline.materials) # SummarizeMaterials(current.materials),
          SummarizeMaterials(baseline.materials), SummarizeMaterials(current.materials))
    \o Ch("Route (Km)", baseline.route_total_km # current.route_total_km,
          SafeTextNum(baseline.route_total_km), SafeTextNum(current.route_total_km))
    \o Ch("Lorry Capacity", baseline.lorry_capacity # current.lorry_capacity,
          SafeTextNum(baseline.lorry_capacity), SafeTextNum(current.lorry_capacity))
    \o Ch("Carrier Size", baseline.lorry_carrier_size # current.lorry_carrier_size,
          SafeTextNum(baseline.lorry_carrier_size), SafeTextNum(current.lorry_carrier_size))

(***************************************************************************)
(* booking_letter table and its queries.                                   *)
(***************************************************************************)
LettersOf(tbl, b, letter_type) ==
    SelectSeq(tbl, LAMBDA row : row.booking_id = b /\ row.letter_type = letter_type)

SeqNos(tbl, b, letter_type) ==
    {LettersOf(tbl, b, letter_type)[i].sequence_no : i \in 1..Len(LettersOf(tbl, b, letter_type))}

Max(S) == CHOOSE x \in S : \A y \in S : y <= x

Min(S) == CHOOSE x \in S : \A y \in S : x <= y

\* variant: the baseline is looked up under another letter type
BaselineLetterQueryOtherType(tbl, b) ==
    LET rows == LettersOf(tbl, b, "PLACEMENT_ADVICE")
    IN IF rows = <<>> THEN None ELSE Some(rows[1])

\* variant: the baseline is the first PLACEMENT row of any booking
BaselineLetterQueryAnyBooking(tbl, b) ==
    LET rows == SelectSeq(tbl, LAMBDA row : row.letter_type = "PLACEMENT")
    IN IF rows = <<>> THEN None ELSE Some(rows[1])

\* filter_by(booking_id, letter_type="PLACEMENT").order_by(sequence_no.asc()).first():
\* <<>> when there is none, else the row of least sequence_no (least id among equals)
BaselineLetterQuery(tbl, b) ==
    LET rows == LettersOf(tbl, b, "PLACEMENT")
        least == Min(SeqNos(tbl, b, "PLACEMENT"))
        firsts == SelectSeq(rows, LAMBDA row : row.sequence_no = least)
    IN IF rows = <<>> THEN None ELSE Some(firsts[1])

\* variant: the query does not filter by booking
NextLetterSequenceAnyBooking(tbl, b, letter_type) ==
    LET rows == SelectSeq(tbl, LAMBDA row : row.letter_type = letter_type)
    IN IF rows = <<>> THEN 1
       ELSE Max({rows[i].sequence_no : i \in 1..Len(rows)}) + 1

\* variant: the query does not filter by letter type
NextLetterSequenceAnyType(tbl, b, letter_type) ==
    LET rows == SelectSeq(tbl, LAMBDA row : row.booking_id = b)
    IN IF rows = <<>> THEN 1
       ELSE Max({rows[i].sequence_no : i \in 1..Len(rows)}) + 1

NextLetterSequence(tbl, b, letter_type) ==
    IF LettersOf(tbl, b, letter_type) = <<>> THEN 1
    ELSE Max(SeqNos(tbl, b, letter_type)) + 1

\* db.session.add(row) and the flush/commit that follows: the row gets the next
\* autoincrement id and is appended; the table has no uniqueness rule on
\* (booking_id, letter_type, sequence_no)
DbAddLetter(tbl, row) == Append(tbl, [row EXCEPT !.id = Len(tbl) + 1])

PdfPath(b, stem, seq) == [booking_dir |-> b, stem |-> stem, seq |-> seq]

(***************************************************************************)
(* Request inputs.                                                         *)
(***************************************************************************)
\* the letter_date form field, as the year, month and day typed (<<>>: left empty)
LetterDateInputs == { <<>>, <<2024, 1, 15>>, <<2024, 13, 40>> }

DaysInMonth(y, m) ==
    IF m \in {4, 6, 9, 11} THEN 30
    ELSE IF m = 2 THEN (IF y % 4 = 0 /\ (y % 100 # 0 \/ y % 400 = 0) THEN 29 ELSE 28)
    ELSE 31

\* variant: the year, month and day are not range-checked
ParseIsoDateUnchecked(raw) ==
    IF Len(raw) = 3 THEN Some(Date(raw[1], raw[2], raw[3])) ELSE None

\* date.fromisoformat / strptime("%Y-%m-%d"): None stands for ValueError
ParseIsoDate(raw) ==
    IF /\ Len(raw) = 3
       /\ raw[1] \in 1..9999
       /\ raw[2] \in 1..12
       /\ raw[3] \in 1..DaysInMonth(raw[1], raw[2])
    THEN Some(Date(raw[1], raw[2], raw[3]))
    ELSE None

\* date.today() as seen by a request
TodayDates == { Date(2024, 1, 20) }

\* the uploaded attachment_pdf file of the form
NoFile == [filename |-> "", ext |-> ""]

FileInputs == { NoFile, [filename |-> "list.pdf", ext |-> "pdf"], [filename |-> "list.txt", ext |-> "txt"] }

\* the files tried by the requests of the model
RequestFiles == { NoFile }

IsPdfFilename(f) == f.ext = "pdf"

(***************************************************************************)
(* generate_placement_advice, POST.  The handler is split where it reads   *)
(* (PlanPost: everything up to and including the PDF rendering, which      *)
(* decides what is to be stored and served) and where it writes            *)
(* (CommitPlan: db.session.add ... db.session.commit and the response).    *)
(***************************************************************************)
Response(status, letter_id, pdf) == [status |-> status, letter_id |-> letter_id, pdf |-> pdf]

NoRow == [id |-> 0]

\* a plan that writes nothing and answers at once
Answer(status, letter_id, pdf) ==
    [write |-> FALSE, row |-> NoRow, attach |-> NoFile, resp |-> Response(status, letter_id, pdf)]

\* variant: the current digest is stored in place of the baseline's
ModificationRowBaseHashOfCurrent(tbl, b, baseline_letter, base_canon, base_hash, current_canon, current_hash, letter_date_val) ==
    LET mod_seq == NextLetterSequence(tbl, b, "PLACEMENT_MOD")
    IN [id |-> 0,
        booking_id |-> b,
        letter_type |-> "PLACEMENT_MOD",
        sequence_no |-> mod_seq,
        letter_date |-> letter_date_val,
        snapshot_json |->
            [base_letter_id |-> baseline_letter.id,
             base_letter_type |-> "PLACEMENT",
             base_content_hash |-> current_hash,
             content_hash |-> current_hash,
             canonical |-> current_canon,
             diffs |-> ComputeModDiff(base_canon, current_canon)],
        pdf_path |-> PdfPath(b, "placement_mod_v", mod_seq)]

\* variant: the diff is taken against the latest amendment's payload when there is one
ModificationRowDiffAgainstPrevious(tbl, b, baseline_letter, base_canon, base_hash, current_canon, current_hash, letter_date_val) ==
    LET mod_seq == NextLetterSequence(tbl, b, "PLACEMENT_MOD")
        mods == LettersOf(tbl, b, "PLACEMENT_MOD")
        previous == IF mods = <<>> THEN base_canon ELSE mods[Len(mods)].snapshot_json.canonical
    IN [id |-> 0,
        booking_id |-> b,
        letter_type |-> "PLACEMENT_MOD",
        sequence_no |-> mod_seq,
        letter_date |-> letter_date_val,
        snapshot_json |->
            [base_letter_id |-> baseline_letter.id,
             base_letter_type |-> "PLACEMENT",
             base_content_hash |-> base_hash,
             content_hash |-> current_hash,
             canonical |-> current_canon,
             diffs |-> ComputeModDiff(previous, current_canon)],
        pdf_path |-> PdfPath(b, "placement_mod_v", mod_seq)]

\* the Modification Advice row of the "changes exist" branch
ModificationRow(tbl, b, baseline_letter, base_canon, base_hash, current_canon, current_hash, letter_date_val) ==
    LET mod_seq == NextLetterSequence(tbl, b, "PLACEMENT_MOD")
    IN [id |-> 0,
        booking_id |-> b,
        letter_type |-> "PLACEMENT_MOD",
        sequence_no |-> mod_seq,
        letter_date |-> letter_date_val,
        snapshot_json |->
            [base_letter_id |-> baseline_letter.id,
             base_letter_type |-> "PLACEMENT",
             base_content_hash |-> base_hash,
             content_hash |-> current_hash,
             canonical |-> current_canon,
             diffs |-> ComputeModDiff(base_canon, current_canon)],
        pdf_path |-> PdfPath(b, "placement_mod_v", mod_seq)]

\* variant: the stored content hash is taken over the payload with its letter_date
PlacementRowHashWithDate(bks, tbl, b, current_canon, current_hash, letter_date_val, requires_attachment) ==
    LET seq == NextLetterSequence(tbl, b, "PLACEMENT")
    IN [id |-> 0,
        booking_id |-> b,
        letter_type |-> "PLACEMENT",
        sequence_no |-> seq,
        letter_date |-> letter_date_val,
        snapshot_json |->
            [booking_id |-> bks[b].id,
             trip_serial |-> ComputeTripSerial(bks, b),
             letter_date |-> Isoformat(letter_date_val),
             content_hash |-> current_canon,
             canonical |-> current_canon],
        pdf_path |-> IF requires_attachment
                       THEN PdfPath(b, "placement_advice_merged_v", seq)
                       ELSE PdfPath(b, "placement_advice_v", seq)]

\* the baseline Placement Advice row of the first issuance
PlacementRow(bks, tbl, b, current_canon, current_hash, letter_date_val, requires_attachment) ==
    LET seq == NextLetterSequence(tbl, b, "PLACEMENT")
    IN [id |-> 0,
        booking_id |-> b,
        letter_type |-> "PLACEMENT",
        sequence_no |-> seq,
        letter_date |-> letter_date_val,
        snapshot_json |->
            [booking_id |-> bks[b].id,
             trip_serial |-> ComputeTripSerial(bks, b),
             letter_date |-> Isoformat(letter_date_val),
             content_hash |-> current_hash,
             canonical |-> current_canon],
        pdf_path |-> IF requires_attachment
                       THEN PdfPath(b, "placement_advice_merged_v", seq)
                       ELSE PdfPath(b, "placement_advice_v", seq)]


\* variant: the stored content_hash is used whenever the row has one
PlanWithBaselineTrustingStoredHash(tbl, b, baseline_letter, current_canon, current_hash, letter_date_val) ==
    LET base_canon == baseline_letter.snapshot_json.canonical
        base_hash == IF Truthy(baseline_letter.snapshot_json.content_hash)
                     THEN baseline_letter.snapshot_json.content_hash
                     ELSE HashCanonicalSnapshot(base_canon)
        row == ModificationRow(tbl, b, baseline_letter, base_canon, base_hash,
                               current_canon, current_hash, letter_date_val)
    IN IF ~Truthy(base_canon) \/ ~Truthy(base_hash)
         THEN Answer("baseline_no_snapshot", baseline_letter.id, baseline_letter.pdf_path)
       ELSE IF base_hash = current_hash
         THEN Answer("baseline_unchanged", baseline_letter.id, baseline_letter.pdf_path)
       ELSE [write |-> TRUE, row |-> row, attach |-> NoFile,
             resp |-> Response("modification_issued", 0, row.pdf_path)]

\* variant: the baseline digest is compared with the payload instead of its digest
PlanWithBaselineComparingPayload(tbl, b, baseline_letter, current_canon, current_hash, letter_date_val) ==
    LET base_canon == baseline_letter.snapshot_json.canonical
        base_hash == IF Truthy(base_canon) THEN HashCanonicalSnapshot(base_canon)
                     ELSE baseline_letter.snapshot_json.content_hash
        row == ModificationRow(tbl, b, baseline_letter, base_canon, base_hash,
                               current_canon, current_hash, letter_date_val)
    IN IF ~Truthy(base_canon) \/ ~Truthy(base_hash)
         THEN Answer("baseline_no_snapshot", baseline_letter.id, baseline_letter.pdf_path)
       ELSE IF base_hash = current_canon
         THEN Answer("baseline_unchanged", baseline_letter.id, baseline_letter.pdf_path)
       ELSE [write |-> TRUE, row |-> row, attach |-> NoFile,
             resp |-> Response("modification_issued", 0, row.pdf_path)]

\* the branch taken when a baseline row exists
PlanWithBaseline(tbl, b, baseline_letter, current_canon, current_hash, letter_date_val) ==
    LET base_canon == baseline_letter.snapshot_json.canonical
        base_hash == IF Truthy(base_canon) THEN HashCanonicalSnapshot(base_canon)
                     ELSE baseline_letter.snapshot_json.content_hash
        row == ModificationRow(tbl, b, baseline_letter, base_canon, base_hash,
                               current_canon, current_hash, letter_date_val)
    IN IF ~Truthy(base_canon) \/ ~Truthy(base_hash)
         THEN Answer("baseline_no_snapshot", baseline_letter.id, baseline_letter.pdf_path)
       ELSE IF base_hash = current_hash
         THEN Answer("baseline_unchanged", baseline_letter.id, baseline_letter.pdf_path)
       ELSE [write |-> TRUE, row |-> row, attach |-> NoFile,
             resp |-> Response("modification_issued", 0, row.pdf_path)]

\* variant: a baseline row without a stored payload is treated as no baseline
PlanPostRegeneratingLegacy(bks, tbl, b, letter_date_str, file, today) ==
    LET bk == bks[b]
        found == BaselineLetterQuery(tbl, b)
        baseline == IF found # None /\ ~Truthy(found[1].snapshot_json.canonical)
                    THEN None ELSE found
        requires_attachment == BookingRequiresAttachmentPdf(bk)
        parsed == IF letter_date_str = <<>> THEN Some(today) ELSE ParseIsoDate(letter_date_str)
        letter_date_val == parsed[1]
        current_canon == BuildCanonicalSnapshotForPlacement(bks, b, letter_date_val)
        current_hash == HashCanonicalSnapshot(current_canon)
        row == PlacementRow(bks, tbl, b, current_canon, current_hash, letter_date_val,
                            requires_attachment)
    IN IF IsCancelled(bk)
         THEN Answer("cancelled", 0, Null)
       ELSE IF parsed = None
         THEN Answer("invalid_letter_date", 0, Null)
       ELSE IF requires_attachment /\ baseline = None /\ file.filename = ""
         THEN Answer("attachment_required", 0, Null)
       ELSE IF requires_attachment /\ baseline = None /\ ~IsPdfFilename(file)
         THEN Answer("attachment_not_pdf", 0, Null)
       ELSE IF baseline # None
         THEN PlanWithBaseline(tbl, b, baseline[1], current_canon, current_hash, letter_date_val)
       ELSE [write |-> TRUE, row |-> row,
             attach |-> IF requires_attachment THEN file ELSE NoFile,
             resp |-> Response("placement_issued", 0, row.pdf_path)]

PlanPost(bks, tbl, b, letter_date_str, file, today) ==
    LET bk == bks[b]
        baseline == BaselineLetterQuery(tbl, b)
        requires_attachment == BookingRequiresAttachmentPdf(bk)
        parsed == IF letter_date_str = <<>> THEN Some(today) ELSE ParseIsoDate(letter_date_str)
        letter_date_val == parsed[1]
        current_canon == BuildCanonicalSnapshotForPlacement(bks, b, letter_date_val)
        current_hash == HashCanonicalSnapshot(current_canon)
        row == PlacementRow(bks, tbl, b, current_canon, current_hash, letter_date_val,
                            requires_attachment)
    IN IF IsCancelled(bk)
         THEN Answer("cancelled", 0, Null)
       ELSE IF parsed = None
         THEN Answer("invalid_letter_date", 0, Null)
       ELSE IF requires_attachment /\ baseline = None /\ file.filename = ""
         THEN Answer("attachment_required", 0, Null)
       ELSE IF requires_attachment /\ baseline = None /\ ~IsPdfFilename(file)
         THEN Answer("attachment_not_pdf", 0, Null)
       ELSE IF baseline # None
         THEN PlanWithBaseline(tbl, b, baseline[1], current_canon, current_hash, letter_date_val)
       ELSE [write |-> TRUE, row |-> row,
             attach |-> IF requires_attachment THEN file ELSE NoFile,
             resp |-> Response("placement_issued", 0, row.pdf_path)]

\* variant: an amendment also rewrites the baseline row with the current payload
LettersAfterRegenerating(tbl, plan) ==
    IF plan.write /\ plan.row.letter_type = "PLACEMENT_MOD"
    THEN DbAddLetter([i \in 1..Len(tbl) |->
                         IF tbl[i].id = plan.row.snapshot_json.base_letter_id
                         THEN [tbl[i] EXCEPT !.snapshot_json.canonical = plan.row.snapshot_json.canonical,
                                             !.snapshot_json.content_hash = plan.row.snapshot_json.content_hash]
                         ELSE tbl[i]],
                     plan.row)
    ELSE IF plan.write THEN DbAddLetter(tbl, plan.row) ELSE tbl

\* the booking_letter table after the plan's db.session.add and commit
LettersAfter(tbl, plan) == IF plan.write THEN DbAddLetter(tbl, plan.row) ELSE tbl

\* the booking_letter_attachment table after the plan's commit
AttachmentsAfter(atts, tbl, plan) ==
    IF plan.write /\ plan.attach # NoFile
    THEN Append(atts, [id |-> Len(atts) + 1,
                       booking_letter_id |-> Len(tbl) + 1,
                       original_filename |-> plan.attach.filename])
    ELSE atts

\* the response: a stored letter's PDF, the PDF of the row just written, or a redirect
ResponseAfter(tbl, plan) ==
    IF plan.write THEN [plan.resp EXCEPT !.letter_id = Len(tbl) + 1] ELSE plan.resp

(***************************************************************************)
(* Booking routes: booking_detail (POST), booking_materials_edit and       *)
(* cancel_booking.                                                         *)
(***************************************************************************)
\* the placement_date form field, as typed (<<>>: left empty)
PlacementDateInputs == { <<>>, <<2024, 1, 10>>, <<2024, 1, 12>>, <<2024, 1, 2>> }

\* the lorry_id form field (0: none selected)
LorryIdInputs == {0, 1, 7}

\* the legacy single-block materials form: mode, and one line's quantity and rate,
\* or the header amount
MaterialForms ==
    { [material_mode |-> "ITEM", line_quantity |-> Some(10), line_rate |-> Some(5),
       material_total_amount |-> None],
      [material_mode |-> "ITEM", line_quantity |-> Some(15), line_rate |-> Some(5),
       material_total_amount |-> None],
      [material_mode |-> "ATTACHED", line_quantity |-> None, line_rate |-> None,
       material_total_amount |-> None],
      [material_mode |-> "", line_quantity |-> None, line_rate |-> None,
       material_total_amount |-> None] }

\* the parsed block, or None when the form is rejected; the form has one line,
\* described "Cable drum", unit "Nos"
ParseMaterialsFromEditForm(form) ==
    IF form.material_mode = "ATTACHED" THEN
        IF form.material_total_amount = None THEN None
        ELSE Some([mode |-> "ATTACHED", total_quantity |-> None, total_quantity_unit |-> "",
                   total_amount |-> form.material_total_amount,
                   lines |-> << [description |-> "As per list attached.", unit |-> "",
                                 quantity |-> None, rate |-> None, amount |-> None] >>])
    ELSE IF form.material_mode = "ITEM" THEN
        IF (form.line_quantity = None) # (form.line_rate = None) THEN None
        ELSE IF form.line_quantity = None THEN None
        ELSE LET amt == form.line_quantity[1] * form.line_rate[1]
             IN Some([mode |-> "ITEM", total_quantity |-> None, total_quantity_unit |-> "",
                      total_amount |-> Some(amt),
                      lines |-> << [description |-> "Cable drum", unit |-> "Nos",
                                    quantity |-> form.line_quantity, rate |-> form.line_rate,
                                    amount |-> Some(amt)] >>])
    ELSE None

RebuildMaterialFromBlock(material, block, sequence_index) ==
    LET lines == [i \in 1..Len(block.lines) |->
                     [sequence_index |-> i,
                      description |-> block.lines[i].description,
                      unit |-> block.lines[i].unit,
                      quantity |-> block.lines[i].quantity,
                      rate |-> block.lines[i].rate,
                      amount |-> block.lines[i].amount]]
    IN [material EXCEPT
           !.mode = block.mode,
           !.sequence_index = sequence_index,
           !.total_quantity = block.total_quantity,
           !.total_quantity_unit = block.total_quantity_unit,
           !.total_amount = IF block.mode = "ITEM"
                              THEN (IF lines = <<>> THEN None ELSE Some(SumAmounts(lines)))
                              ELSE block.total_amount,
           !.lines = lines]

\* Base-block path with replace_existing: the booking's one (loading, unloading)
\* scope already has its table, which is rebuilt in place and keeps its id
ApplyMaterialsPayloadToBooking(bk, block) ==
    [bk EXCEPT !.material_tables =
        [i \in 1..Len(bk.material_tables) |->
            RebuildMaterialFromBlock(bk.material_tables[i], block, i)]]

OtherResponse == Response("other", 0, Null)

InitialBooking(b) ==
    [id |-> b,
     agreement_id |-> 1,
     company_id |-> 1,
     route_id |-> 1,
     lorry_id |-> 1,
     placement_date |-> Some(Date(2024, 1, 10)),
     booking_date |-> Date(2024, 1, 5),
     status |-> "ACTIVE",
     booking_authorities |-> BookingAuthorityRows(b),
     material_tables |->
        << [id |-> b, sequence_index |-> 1,
            booking_authority_id |-> 2 * b - 1, to_booking_authority_id |-> 2 * b,
            mode |-> "ITEM", total_quantity |-> None, total_quantity_unit |-> "",
            total_amount |-> Some(50),
            lines |-> << [sequence_index |-> 1, description |-> "Cable drum", unit |-> "Nos",
                          quantity |-> Some(10), rate |-> Some(5), amount |-> Some(50)] >>] >>]

ReqIds == {1, 2}

IdleReq == [pc |-> "idle", booking_id |-> 0, plan |-> Answer("idle", 0, Null)]

Init ==
    /\ bookings = [b \in InitialBookingIds |-> InitialBooking(b)]
    /\ letters = <<>>
    /\ attachments = <<>>
    /\ resp = [b \in InitialBookingIds |-> OtherResponse]
    /\ reqs = [r \in ReqIds |-> IdleReq]

\* POST /letters/placement/<b>, handled without another request in between
GeneratePlacementAdvicePost(b) ==
    \E letter_date_str \in LetterDateInputs, file \in RequestFiles, today \in TodayDates :
        LET plan == PlanPost(bookings, letters, b, letter_date_str, file, today)
        IN /\ Len(LettersAfter(letters, plan)) <= MaxLetters
           /\ letters' = LettersAfter(letters, plan)
           /\ attachments' = AttachmentsAfter(attachments, letters, plan)
           /\ resp' = [resp EXCEPT ![b] = ResponseAfter(letters, plan)]
           /\ UNCHANGED <<bookings, reqs>>

\* variant: the POST does not look at the booking's status
BookingDetailPostIgnoringCancel(b) ==
    \E placement_raw \in PlacementDateInputs, lorry_id \in LorryIdInputs :
        LET placement_date == ParseIsoDate(placement_raw)
            errors == \/ placement_date = None
                      \/ DateLess(placement_date[1], bookings[b].booking_date)
                      \/ lorry_id = 0
                      \/ lorry_id \notin DOMAIN LorryRows
        IN /\ bookings' = IF errors THEN bookings
                          ELSE [bookings EXCEPT ![b].placement_date = placement_date,
                                                ![b].lorry_id = lorry_id]
           /\ resp' = [resp EXCEPT ![b] = OtherResponse]
           /\ UNCHANGED <<letters, attachments, reqs>>

\* POST /booking/<b>
BookingDetailPost(b) ==
    \E placement_raw \in PlacementDateInputs, lorry_id \in LorryIdInputs :
        LET placement_date == ParseIsoDate(placement_raw)
            errors == \/ placement_date = None
                      \/ DateLess(placement_date[1], bookings[b].booking_date)
                      \/ lorry_id = 0
                      \/ lorry_id \notin DOMAIN LorryRows
        IN /\ bookings' = IF bookings[b].status = "CANCELLED" \/ errors THEN bookings
                          ELSE [bookings EXCEPT ![b].placement_date = placement_date,
                                                ![b].lorry_id = lorry_id]
           /\ resp' = [resp EXCEPT ![b] = OtherResponse]
           /\ UNCHANGED <<letters, attachments, reqs>>

\* POST /booking/<b>/materials-edit
BookingMaterialsEdit(b) ==
    \E form \in MaterialForms :
        LET block == ParseMaterialsFromEditForm(form)
        IN /\ bookings' = IF bookings[b].status = "CANCELLED" \/ block = None THEN bookings
                          ELSE [bookings EXCEPT ![b] = ApplyMaterialsPayloadToBooking(@, block[1])]
           /\ resp' = [resp EXCEPT ![b] = OtherResponse]
           /\ UNCHANGED <<letters, attachments, reqs>>

\* POST /booking/<b>/cancel
CancelBooking(b) ==
    /\ bookings' = IF bookings[b].status = "CANCELLED" THEN bookings
                   ELSE [bookings EXCEPT ![b].status = "CANCELLED"]
    /\ resp' = [resp EXCEPT ![b] = OtherResponse]
    /\ UNCHANGED <<letters, attachments, reqs>>

Next ==
    \/ \E b \in DOMAIN bookings : GeneratePlacementAdvicePost(b)
    \/ \E b \in DOMAIN bookings : BookingDetailPost(b)
    \/ \E b \in DOMAIN bookings : BookingMaterialsEdit(b)
    \/ \E b \in DOMAIN bookings : CancelBooking(b)

Spec == Init /\ [][Next]_vars

(***************************************************************************)
(* Overlapping issuance requests.  The server handles requests in threads; *)
(* a request reads the booking, the baseline and the last sequence number, *)
(* renders the PDF, and only then adds and commits its row.  Another       *)
(* request, or a booking route, may run between the two.                   *)
(***************************************************************************)
\* the letter_date fields tried by overlapping requests
RaceLetterDateInputs == { <<>> }

\* lines 1177-1345 / 1177-1393 of the handler: everything before db.session.add
RequestBegin(r, b) ==
    /\ reqs[r].pc = "idle"
    /\ \E letter_date_str \in RaceLetterDateInputs, today \in TodayDates :
          LET plan == PlanPost(bookings, letters, b, letter_date_str, NoFile, today)
          IN IF plan.write
               THEN /\ reqs' = [reqs EXCEPT ![r] = [pc |-> "rendered", booking_id |-> b, plan |-> plan]]
                    /\ UNCHANGED resp
               ELSE /\ resp' = [resp EXCEPT ![b] = plan.resp]
                    /\ UNCHANGED reqs
    /\ UNCHANGED <<bookings, letters, attachments>>

\* db.session.add, db.session.commit and send_file of a request that got that far
RequestCommit(r) ==
    /\ reqs[r].pc = "rendered"
    /\ Len(letters) < MaxLetters
    /\ letters' = LettersAfter(letters, reqs[r].plan)
    /\ attachments' = AttachmentsAfter(attachments, letters, reqs[r].plan)
    /\ resp' = [resp EXCEPT ![reqs[r].booking_id] = ResponseAfter(letters, reqs[r].plan)]
    /\ reqs' = [reqs EXCEPT ![r] = IdleReq]
    /\ UNCHANGED bookings

NextRace ==
    \/ \E r \in ReqIds, b \in DOMAIN bookings : RequestBegin(r, b)
    \/ \E r \in ReqIds : RequestCommit(r)
    \/ \E b \in DOMAIN bookings : BookingDetailPost(b)
    \/ \E b \in DOMAIN bookings : CancelBooking(b)

SpecRace == Init /\ [][NextRace]_vars

(***************************************************************************)
(* Properties.                                                             *)
(***************************************************************************)
Placements(b) == LettersOf(letters, b, "PLACEMENT")

Modifications(b) == LettersOf(letters, b, "PLACEMENT_MOD")

\* the digest of the booking's current state (the letter date is not digested)
CurrentDigest(b) ==
    HashCanonicalSnapshot(BuildCanonicalSnapshotForPlacement(bookings, b, Date(2024, 1, 1)))

HasBaselineWithPayload(b) ==
    /\ Placements(b) # <<>>
    /\ Truthy(Placements(b)[1].snapshot_json.canonical)

BaselineDigest(b) == HashCanonicalSnapshot(Placements(b)[1].snapshot_json.canonical)

\* the last request for b was an issuance request that served a letter's PDF
ServedLetter(r) == r.status \in {"baseline_no_snapshot", "baseline_unchanged",
                                  "modification_issued", "placement_issued"}

\* the step is an issuance request for b handled in one piece (only such a
\* request leaves a response other than OtherResponse for b)
IssuanceStep(b) ==
    /\ resp'[b].status # "other"
    /\ bookings' = bookings
    /\ GeneratePlacementAdvicePost(b)

\* the step leaves every committed row as it was and removes none
RowsKept == /\ Len(letters') >= Len(letters)
            /\ \A i \in 1..Len(letters) : letters'[i] = letters[i]

\* C1: with requests handled one at a time, every booking has at most one
\* PLACEMENT row in every reachable state.
C1_AtMostOneBaseline ==
    \A b \in DOMAIN bookings : Len(Placements(b)) <= 1

\* C1 witness: a baseline and an amendment exist and a later request was served the baseline
C1_Witness ==
    \E b \in DOMAIN bookings :
        /\ Len(Placements(b)) = 1
        /\ Len(Modifications(b)) >= 1
        /\ resp[b].status = "baseline_unchanged"

\* C2: no step changes or removes a committed booking_letter row; so the
\* baseline keeps the payload, hash, sequence number and letter date it was
\* written with.
C2_AppendOnly == [][RowsKept]_vars

\* C2 witness: the booking has moved away from its baseline, amendments were
\* written, and the baseline still holds the payload of the state it was issued for
C2_Witness ==
    \E b \in DOMAIN bookings :
        /\ HasBaselineWithPayload(b)
        /\ Len(Modifications(b)) = 2
        /\ BaselineDigest(b) # CurrentDigest(b)
        /\ Placements(b)[1].snapshot_json.content_hash = BaselineDigest(b)
        /\ Placements(b)[1].sequence_no = 1

\* C3: for a booking that is not cancelled and whose baseline has its payload,
\* when the current digest equals the digest recomputed from the baseline's
\* payload, an issuance request writes nothing and, unless its letter date is
\* rejected, is served the baseline's PDF.
C3_UnchangedServesBaseline ==
    [][\A b \in DOMAIN bookings :
          ( /\ bookings[b].status # "CANCELLED"
            /\ HasBaselineWithPayload(b)
            /\ CurrentDigest(b) = BaselineDigest(b)
            /\ IssuanceStep(b) )
          => /\ letters' = letters
             /\ attachments' = attachments
             /\ \/ resp'[b].status = "invalid_letter_date"
                \/ resp'[b] = Response("baseline_unchanged", Placements(b)[1].id,
                                       Placements(b)[1].pdf_path)]_vars

\* C3 witness: amendments exist, the booking is back in its baseline state and
\* the request was served the baseline
C3_Witness ==
    \E b \in DOMAIN bookings :
        /\ HasBaselineWithPayload(b)
        /\ Len(Modifications(b)) = 1
        /\ CurrentDigest(b) = BaselineDigest(b)
        /\ resp[b] = Response("baseline_unchanged", Placements(b)[1].id, Placements(b)[1].pdf_path)

\* C4: an issuance request that follows an issuance request for the same
\* booking, with no booking route in between, is served the same letter and
\* writes no row (a request whose letter date is rejected aside).
C4_RepeatedRequestSameLetter ==
    [][\A b \in DOMAIN bookings :
          ( /\ ServedLetter(resp[b])
            /\ resp'[b].status # "invalid_letter_date"
            /\ IssuanceStep(b) )
          => /\ letters' = letters
             /\ resp'[b].letter_id = resp[b].letter_id]_vars

\* C5: no two PLACEMENT_MOD rows of a booking store the same content_hash.
C5_NoTwoAmendmentsShareDigest ==
    \A b \in DOMAIN bookings :
        \A i, j \in 1..Len(Modifications(b)) :
            i # j => Modifications(b)[i].snapshot_json.content_hash
                       # Modifications(b)[j].snapshot_json.content_hash

\* C6: with requests handled one at a time, the PLACEMENT_MOD rows of a booking
\* are numbered 1, 2, ..., k in the order they were written.
C6_AmendmentsNumberedFromOne ==
    \A b \in DOMAIN bookings :
        \A i \in 1..Len(Modifications(b)) : Modifications(b)[i].sequence_no = i

\* C6 witness: two amendments for two different states of the booking
C6_Witness ==
    \E b \in DOMAIN bookings :
        /\ Len(Modifications(b)) = 2
        /\ Modifications(b)[1].snapshot_json.content_hash
             # Modifications(b)[2].snapshot_json.content_hash

\* C7: under overlapping requests no two rows of one (booking, letter type)
\* have the same sequence number and a booking has at most one PLACEMENT row.
C7_NoDuplicateSequenceUnderRace ==
    /\ \A i, j \in 1..Len(letters) :
          ( /\ i # j
            /\ letters[i].booking_id = letters[j].booking_id
            /\ letters[i].letter_type = letters[j].letter_type )
          => letters[i].sequence_no # letters[j].sequence_no
    /\ \A b \in DOMAIN bookings : Len(Placements(b)) <= 1

\* C8: an issuance request for a CANCELLED booking is answered with the
\* cancellation error whatever its letter date, and adds or changes no row and
\* uses up no sequence number.
C8_CancelledBlocked ==
    [][\A b \in DOMAIN bookings :
          (bookings[b].status = "CANCELLED" /\ IssuanceStep(b))
          => /\ letters' = letters
             /\ attachments' = attachments
             /\ resp'[b] = Response("cancelled", 0, Null)
             /\ \A t \in {"PLACEMENT", "PLACEMENT_MOD"} :
                   NextLetterSequence(letters', b, t) = NextLetterSequence(letters, b, t)]_vars

\* C8 witness: a cancelled booking with a baseline and an amendment was refused
C8_Witness ==
    \E b \in DOMAIN bookings :
        /\ bookings[b].status = "CANCELLED"
        /\ Len(Placements(b)) = 1
        /\ Len(Modifications(b)) >= 1
        /\ resp[b].status = "cancelled"

\* C9: for a booking that is not cancelled, has no PLACEMENT row and needs no
\* attachment, an issuance request with a valid letter date writes exactly one
\* row: type PLACEMENT, sequence 1, the payload and the digest of the booking's
\* current state; and serves that row's PDF.
C9_FirstIssuance ==
    [][\A b \in DOMAIN bookings :
          ( /\ bookings[b].status # "CANCELLED"
            /\ Placements(b) = <<>>
            /\ ~BookingRequiresAttachmentPdf(bookings[b])
            /\ resp'[b].status # "invalid_letter_date"
            /\ IssuanceStep(b) )
          => /\ Len(letters') = Len(letters) + 1
             /\ RowsKept
             /\ LET row == letters'[Len(letters')]
                IN /\ row.booking_id = b
                   /\ row.letter_type = "PLACEMENT"
                   /\ row.sequence_no = 1
                   /\ row.snapshot_json.canonical
                        = BuildCanonicalSnapshotForPlacement(bookings, b, row.letter_date)
                   /\ row.snapshot_json.content_hash = CurrentDigest(b)
                   /\ resp'[b] = Response("placement_issued", row.id, row.pdf_path)]_vars

\* C9 witness: the first letter of a booking, issued under a supplied letter date
C9_Witness ==
    \E b \in DOMAIN bookings :
        /\ Len(letters) = 1
        /\ letters[1].booking_id = b
        /\ letters[1].letter_date = Date(2024, 1, 15)
        /\ resp[b] = Response("placement_issued", 1, letters[1].pdf_path)

\* C10: when the baseline has its payload, the current digest differs from the
\* baseline's and from every amendment's, an issuance request with a valid
\* letter date writes exactly one PLACEMENT_MOD row holding the baseline's id,
\* the digest recomputed from the baseline's payload, the current payload and
\* digest, the diff between the baseline's payload and the current payload, and
\* the next sequence number of (booking, PLACEMENT_MOD).
C10_NewAmendment ==
    [][\A b \in DOMAIN bookings :
          ( /\ bookings[b].status # "CANCELLED"
            /\ resp'[b].status # "invalid_letter_date"
            /\ HasBaselineWithPayload(b)
            /\ CurrentDigest(b) # BaselineDigest(b)
            /\ \A i \in 1..Len(Modifications(b)) :
                  Modifications(b)[i].snapshot_json.content_hash # CurrentDigest(b)
            /\ IssuanceStep(b) )
          => /\ Len(letters') = Len(letters) + 1
             /\ RowsKept
             /\ LET row == letters'[Len(letters')]
                    base == Placements(b)[1]
                IN /\ row.booking_id = b
                   /\ row.letter_type = "PLACEMENT_MOD"
                   /\ row.sequence_no = NextLetterSequence(letters, b, "PLACEMENT_MOD")
                   /\ row.snapshot_json.base_letter_id = base.id
                   /\ row.snapshot_json.base_content_hash = BaselineDigest(b)
                   /\ row.snapshot_json.canonical
                        = BuildCanonicalSnapshotForPlacement(bookings, b, row.letter_date)
                   /\ row.snapshot_json.content_hash = CurrentDigest(b)
                   /\ row.snapshot_json.diffs
                        = ComputeModDiff(base.snapshot_json.canonical, row.snapshot_json.canonical)
                   /\ resp'[b] = Response("modification_issued", row.id, row.pdf_path)]_vars

\* C10 witness: a second amendment whose stored diff is the diff against the
\* baseline, which is not the diff against the first amendment
C10_Witness ==
    \E b \in DOMAIN bookings :
        /\ Len(Modifications(b)) = 2
        /\ Modifications(b)[2].snapshot_json.diffs
             = ComputeModDiff(Placements(b)[1].snapshot_json.canonical,
                              Modifications(b)[2].snapshot_json.canonical)
        /\ Modifications(b)[2].snapshot_json.diffs
             # ComputeModDiff(Modifications(b)[1].snapshot_json.canonical,
                              Modifications(b)[2].snapshot_json.canonical)

(***************************************************************************)
(* Bookings whose baseline was issued before payloads were stored ("older  *)
(* records"): the PLACEMENT row exists, its snapshot_json holds no         *)
(* canonical payload, and may or may not hold a content_hash.              *)
(***************************************************************************)
\* snapshot_json of an older PLACEMENT row: empty, or with a digest but no payload
LegacySnapshots ==
    { [canonical |-> Null, content_hash |-> Null],
      [canonical |-> Null,
       content_hash |-> HashCanonicalSnapshot(
           BuildCanonicalSnapshotForPlacement([b \in InitialBookingIds |-> InitialBooking(b)],
                                              1, Date(2024, 1, 8)))] }

\* the letter dates older rows were issued under
LegacyLetterDates == { Date(2024, 1, 7), Date(2024, 1, 8), Date(2024, 1, 9) }

LegacyLetter(b, snapshot_json, letter_date_val) ==
    [id |-> 1,
     booking_id |-> b,
     letter_type |-> "PLACEMENT",
     sequence_no |-> 1,
     letter_date |-> letter_date_val,
     snapshot_json |-> snapshot_json,
     pdf_path |-> PdfPath(b, "placement_advice_v", 1)]

InitLegacy ==
    /\ \E lorry_id \in DOMAIN LorryRows :
          bookings = [b \in InitialBookingIds |-> [InitialBooking(b) EXCEPT !.lorry_id = lorry_id]]
    /\ \E snapshot_json \in LegacySnapshots, letter_date_val \in LegacyLetterDates :
          letters = << LegacyLetter(1, snapshot_json, letter_date_val) >>
    /\ attachments = <<>>
    /\ resp = [b \in InitialBookingIds |-> OtherResponse]
    /\ reqs = [r \in ReqIds |-> IdleReq]

SpecLegacy == InitLegacy /\ [][Next]_vars

\* the booking has a baseline row whose canonical payload is missing or empty
HasBaselineWithoutPayload(b) ==
    /\ Placements(b) # <<>>
    /\ ~Truthy(Placements(b)[1].snapshot_json.canonical)

\* C11: for a booking whose baseline row has no stored canonical payload, no
\* step ever adds or changes a row (no second baseline, no amendment), and an
\* issuance request that passes the cancellation and letter-date checks is
\* served the baseline's PDF, whatever the booking's state has become.
C11_LegacyBaselineServed ==
    [][/\ letters' = letters
       /\ \A b \in DOMAIN bookings :
             ( /\ HasBaselineWithoutPayload(b)
               /\ bookings[b].status # "CANCELLED"
               /\ resp'[b].status # "invalid_letter_date"
               /\ IssuanceStep(b) )
             => resp'[b] = Response("baseline_no_snapshot", Placements(b)[1].id,
                                    Placements(b)[1].pdf_path)]_vars

\* C11 witness: the booking's placement date and materials differ from the
\* ones it started with, and the request was still served the old baseline
C11_Witness ==
    \E b \in DOMAIN bookings :
        /\ HasBaselineWithoutPayload(b)
        /\ bookings[b].placement_date = Some(Date(2024, 1, 12))
        /\ bookings[b].material_tables[1].total_amount = Some(75)
        /\ Modifications(b) = <<>>
        /\ resp[b] = Response("baseline_no_snapshot", 1, PdfPath(b, "placement_advice_v", 1))

\* the letter dates two requests for one state are compared under
C12_LetterDates == { Date(2023, 12, 31), Date(2024, 1, 15), Date(2024, 2, 29) }

\* C12: in every reachable state, the digest of the booking's projection is
\* the same under any two letter dates, and two issuance requests that differ
\* only in their (valid) letter date take the same branch and would write rows
\* of the same type, sequence number and content hash.
C12_LetterDateNeverAffectsDigest ==
    \A b \in DOMAIN bookings :
        /\ \A d1, d2 \in C12_LetterDates :
              HashCanonicalSnapshot(BuildCanonicalSnapshotForPlacement(bookings, b, d1))
                = HashCanonicalSnapshot(BuildCanonicalSnapshotForPlacement(bookings, b, d2))
        /\ \A s1, s2 \in LetterDateInputs, today \in TodayDates :
              LET p1 == PlanPost(bookings, letters, b, s1, NoFile, today)
                  p2 == PlanPost(bookings, letters, b, s2, NoFile, today)
              IN (p1.resp.status # "invalid_letter_date" /\ p2.resp.status # "invalid_letter_date")
                 => /\ p1.resp.status = p2.resp.status
                    /\ p1.write = p2.write
                    /\ p1.write => /\ p1.row.letter_type = p2.row.letter_type
                                   /\ p1.row.sequence_no = p2.row.sequence_no
                                   /\ p1.row.snapshot_json.content_hash
                                        = p2.row.snapshot_json.content_hash

\* C12 witness: two amendments written for one state of the booking under two
\* different letter dates store the same content hash, and the baseline was
\* issued under a letter date of its own
C12_Witness ==
    \E b \in DOMAIN bookings :
        /\ Len(Placements(b)) = 1
        /\ Len(Modifications(b)) = 2
        /\ Modifications(b)[1].letter_date # Modifications(b)[2].letter_date
        /\ Modifications(b)[1].snapshot_json.canonical.letter_date
             # Modifications(b)[2].snapshot_json.canonical.letter_date
        /\ Modifications(b)[1].snapshot_json.content_hash
             = Modifications(b)[2].snapshot_json.content_hash

\* C13: in every reachable state, every row written by the issuance route
\* stores the content hash of its own stored payload, and every amendment
\* stores as base_content_hash the hash of the baseline's stored payload.
C13_StoredHashIsHashOfStoredPayload ==
    /\ \A i \in 1..Len(letters) :
          letters[i].snapshot_json.content_hash
            = HashCanonicalSnapshot(letters[i].snapshot_json.canonical)
    /\ \A b \in DOMAIN bookings :
          \A i \in 1..Len(Modifications(b)) :
              /\ Placements(b) # <<>>
              /\ Modifications(b)[i].snapshot_json.base_content_hash
                   = HashCanonicalSnapshot(Placements(b)[1].snapshot_json.canonical)

\* C13 witness: a baseline and two amendments for two different states, each
\* of the three rows under a digest of its own payload
C13_Witness ==
    \E b \in DOMAIN bookings :
        /\ Len(Placements(b)) = 1
        /\ Len(Modifications(b)) = 2
        /\ Modifications(b)[1].snapshot_json.content_hash
             # Modifications(b)[2].snapshot_json.content_hash
        /\ Modifications(b)[2].snapshot_json.base_content_hash
             = Placements(b)[1].snapshot_json.content_hash
        /\ Modifications(b)[2].snapshot_json.base_content_hash
             # Modifications(b)[2].snapshot_json.content_hash

(***************************************************************************)
(* Projection, hash and diff over pairs of booking states: the baseline    *)
(* was issued for one state of the booking and the booking is now in       *)
(* another, which may differ in any of the rows the projection reads.      *)
(***************************************************************************)
BookingAuthority(id, b, authority_id, role, sequence_index) ==
    [id |-> id, booking_id |-> b, authority_id |-> authority_id, role |-> role,
     sequence_index |-> sequence_index]

\* booking_authority rows a booking may have been given
AuthorityVariants(b) ==
    { BookingAuthorityRows(b),
      << BookingAuthority(2 * b - 1, b, 3, "LOADING", 1), BookingAuthority(2 * b, b, 2, "UNLOADING", 1) >>,
      << BookingAuthority(2 * b - 1, b, 1, "LOADING", 1), BookingAuthority(2 * b, b, 3, "UNLOADING", 1) >>,
      << BookingAuthority(2 * b - 1, b, 1, "LOADING", 1), BookingAuthority(2 * b, b, 2, "LOADING", 1) >>,
      << BookingAuthority(2 * b - 1, b, 2, "LOADING", 1), BookingAuthority(2 * b, b, 2, "UNLOADING", 1) >> }

\* materials forms submitted for the booking: 10 x 5, 5 x 10 and 15 x 5
DiffMaterialForms ==
    { [material_mode |-> "ITEM", line_quantity |-> Some(10), line_rate |-> Some(5),
       material_total_amount |-> None],
      [material_mode |-> "ITEM", line_quantity |-> Some(5), line_rate |-> Some(10),
       material_total_amount |-> None],
      [material_mode |-> "ITEM", line_quantity |-> Some(15), line_rate |-> Some(5),
       material_total_amount |-> None] }

\* states booking b may be in
DiffBookings(b) ==
    { [ApplyMaterialsPayloadToBooking(InitialBooking(b), ParseMaterialsFromEditForm(form)[1])
          EXCEPT !.placement_date = Some(pd), !.lorry_id = l, !.route_id = r,
                 !.booking_authorities = av] :
        pd \in {Date(2024, 1, 10), Date(2024, 1, 12)},
        l \in DOMAIN LorryRows,
        r \in DOMAIN RouteRows,
        av \in AuthorityVariants(b),
        form \in DiffMaterialForms }

\* states the booking was in when its baseline was issued
DiffBaselineBookings(b) ==
    { InitialBooking(b),
      [ApplyMaterialsPayloadToBooking(InitialBooking(b),
                                      ParseMaterialsFromEditForm(
                                          [material_mode |-> "ITEM", line_quantity |-> Some(15),
                                           line_rate |-> Some(5),
                                           material_total_amount |-> None])[1])
          EXCEPT !.placement_date = Some(Date(2024, 1, 12)), !.lorry_id = 2, !.route_id = 2,
                 !.booking_authorities =
                     << BookingAuthority(2 * b - 1, b, 1, "LOADING", 1),
                        BookingAuthority(2 * b, b, 2, "LOADING", 1) >>] }

InitDiff ==
    /\ \E was \in DiffBaselineBookings(1), now \in DiffBookings(1) :
          /\ bookings = [b \in InitialBookingIds |-> now]
          /\ letters = LettersAfter(<<>>, PlanPost([b \in InitialBookingIds |-> was], <<>>, 1,
                                                   <<>>, NoFile, Date(2024, 1, 9)))
    /\ attachments = <<>>
    /\ resp = [b \in InitialBookingIds |-> OtherResponse]
    /\ reqs = [r \in ReqIds |-> IdleReq]

NextDiff == \E b \in DOMAIN bookings : GeneratePlacementAdvicePost(b)

SpecDiff == InitDiff /\ [][NextDiff]_vars

\* the labels of the entries of a stored diff, in order
DiffLabels(diffs) == [i \in 1..Len(diffs) |-> diffs[i].field]

\* the tracked fields in their fixed order, each with whether its value
\* differs between payloads A and B
TrackedFieldChanges(A, B) ==
    << [field |-> "Placement Date", differs |-> A.placement_date # B.placement_date],
       [field |-> "Loading Authorities",
        differs |-> SummarizeAuthorityList(A.loading) # SummarizeAuthorityList(B.loading)],
       [field |-> "Unloading Authorities",
        differs |-> SummarizeAuthorityList(A.unloading) # SummarizeAuthorityList(B.unloading)],
       [field |-> "Materials Summary", differs |-> A.materials # B.materials],
       [field |-> "Route (Km)", differs |-> A.route_total_km # B.route_total_km],
       [field |-> "Lorry Capacity", differs |-> A.lorry_capacity # B.lorry_capacity],
       [field |-> "Carrier Size", differs |-> A.lorry_carrier_size # B.lorry_carrier_size] >>

\* the labels of the tracked fields that differ between A and B, in order
ChangedLabels(A, B) ==
    DiffLabels(SelectSeq(TrackedFieldChanges(A, B), LAMBDA e : e.differs))

\* the payload of the baseline an amendment row was written against
BasePayload(row) == Placements(row.booking_id)[1].snapshot_json.canonical

\* C14: the diff stored on every amendment has one entry for each tracked
\* field (placement date, loading summary, unloading summary, materials, route
\* length, lorry capacity, carrier size) whose value differs between the
\* baseline's payload and the amendment's, none for a field that is equal, in
\* that fixed order.
C14_DiffCompleteAndMinimal ==
    \A i \in 1..Len(letters) :
        letters[i].letter_type = "PLACEMENT_MOD"
        => DiffLabels(letters[i].snapshot_json.diffs)
             = ChangedLabels(BasePayload(letters[i]), letters[i].snapshot_json.canonical)

\* the number of entries of a stored diff that carry the label
CountLabel(diffs, label) ==
    Cardinality({i \in 1..Len(diffs) : diffs[i].field = label})

\* C15: on every amendment the route stores, a difference anywhere inside the
\* materials of the baseline's payload and the amendment's (mode, header
\* totals, number of lines, any line's description, unit, quantity, rate or
\* amount) gives exactly one entry labelled "Materials Summary", and equal
\* materials give none.
C15_MaterialsCollapseToOneEntry ==
    \A i \in 1..Len(letters) :
        letters[i].letter_type = "PLACEMENT_MOD"
        => CountLabel(letters[i].snapshot_json.diffs, "Materials Summary")
             = IF BasePayload(letters[i]).materials # letters[i].snapshot_json.canonical.materials
               THEN 1 ELSE 0

\* C16: when the booking differs from its baseline state only in its placement
\* date, 2024-01-10 changed to 2024-01-12, and no amendment exists, an issuance
\* request writes a PLACEMENT_MOD row with sequence 1 whose stored diff is the
\* single entry ("Placement Date", "10-01-2024", "12-01-2024").
C16_PlacementDateDiffDisplay ==
    [][\A b \in DOMAIN bookings :
          ( /\ bookings[b].status # "CANCELLED"
            /\ resp'[b].status # "invalid_letter_date"
            /\ HasBaselineWithPayload(b)
            /\ Modifications(b) = <<>>
            /\ BaselineDigest(b).placement_date = Some("2024-01-10")
            /\ CurrentDigest(b) = [BaselineDigest(b) EXCEPT !.placement_date = Some("2024-01-12")]
            /\ IssuanceStep(b) )
          => /\ Len(letters') = Len(letters) + 1
             /\ LET row == letters'[Len(letters')]
                IN /\ row.letter_type = "PLACEMENT_MOD"
                   /\ row.sequence_no = 1
                   /\ row.snapshot_json.diffs
                        = << [field |-> "Placement Date", old |-> "10-01-2024",
                              new |-> "12-01-2024"] >>]_vars

\* the booking has a baseline and exactly one amendment, issued for a change
\* of the placement date alone, and differs from the amendment's state only
\* in its materials, where the first line's amount has changed
AmountChangedAfterDateAmendment(b) ==
    /\ bookings[b].status # "CANCELLED"
    /\ HasBaselineWithPayload(b)
    /\ Len(Modifications(b)) = 1
    /\ LET first == HashCanonicalSnapshot(Modifications(b)[1].snapshot_json.canonical)
       IN /\ first.placement_date # BaselineDigest(b).placement_date
          /\ first = [BaselineDigest(b) EXCEPT !.placement_date = first.placement_date]
          /\ CurrentDigest(b) = [first EXCEPT !.materials = CurrentDigest(b).materials]
          /\ CurrentDigest(b).materials[1].lines[1].amount # first.materials[1].lines[1].amount

CancelsBooking(b) == CancelBooking(b) /\ bookings'[b].status = "CANCELLED"

\* C18: a cancelled booking stays cancelled and keeps its placement date,
\* lorry and material tables through every step (cancel, booking edit,
\* materials edit, issuance); and in every reachable state, whatever letters
\* the booking has, the cancel route can be taken and leaves it cancelled.
C18_CancelledAbsorbing ==
    [][\A b \in DOMAIN bookings :
          /\ ENABLED CancelsBooking(b)
          /\ bookings[b].status = "CANCELLED"
             => /\ bookings'[b].status = "CANCELLED"
                /\ bookings'[b].placement_date = bookings[b].placement_date
                /\ bookings'[b].lorry_id = bookings[b].lorry_id
                /\ bookings'[b].material_tables = bookings[b].material_tables]_vars

\* C18 witness: a booking cancelled after it was edited and amended twice
C18_Witness ==
    \E b \in DOMAIN bookings :
        /\ bookings[b].status = "CANCELLED"
        /\ Len(Placements(b)) = 1
        /\ Len(Modifications(b)) = 2
        /\ bookings[b].placement_date = Some(Date(2024, 1, 12))
        /\ resp[b] = OtherResponse

\* letter_date fields that are not empty and are no ISO date
InvalidLetterDateInputs == { <<2024, 13, 40>>, <<2023, 2, 29>> }

\* C19: in every reachable state (no letter, baseline only, amended), an
\* issuance request whose letter date is not empty and not a valid ISO date
\* is rejected: it writes no row and no attachment, leaves the table as it is,
\* and is answered with the invalid-date redirect (the cancellation redirect
\* for a cancelled booking), whatever the booking's state and uploaded file.
C19_InvalidLetterDateRejected ==
    \A b \in DOMAIN bookings :
        \A letter_date_str \in InvalidLetterDateInputs, file \in FileInputs, today \in TodayDates :
            LET plan == PlanPost(bookings, letters, b, letter_date_str, file, today)
            IN /\ ~plan.write
               /\ LettersAfter(letters, plan) = letters
               /\ AttachmentsAfter(attachments, letters, plan) = attachments
               /\ ResponseAfter(letters, plan)
                    = IF IsCancelled(bookings[b]) THEN Response("cancelled", 0, Null)
                      ELSE Response("invalid_letter_date", 0, Null)

\* C19 witness: a request with an invalid letter date was rejected for a
\* booking that has a baseline and an amendment and has changed since
C19_Witness ==
    \E b \in DOMAIN bookings :
        /\ resp[b] = Response("invalid_letter_date", 0, Null)
        /\ Len(Placements(b)) = 1
        /\ Len(Modifications(b)) = 1
        /\ CurrentDigest(b) # Modifications(b)[1].snapshot_json.content_hash
        /\ CurrentDigest(b) # BaselineDigest(b)

\* the booking's placement date is not the one in its baseline's payload
PlacementDateChanged(b) ==
    Placements(b)[1].snapshot_json.canonical.placement_date
      # (IF bookings[b].placement_date # None
         THEN Some(Isoformat(bookings[b].placement_date[1])) ELSE None)

\* one of the booking's authorities has another role than in the baseline's payload
AuthorityRoleChanged(b) ==
    LET base == Placements(b)[1].snapshot_json.canonical
        was == base.loading \o base.unloading
        now == bookings[b].booking_authorities
    IN \E i \in 1..Len(now), j \in 1..Len(was) :
          /\ now[i].authority_id = was[j].authority_id
          /\ now[i].role # was[j].role

\* one of the booking's material lines has another amount than in the baseline's payload
LineAmountChanged(b) ==
    LET was == Placements(b)[1].snapshot_json.canonical.materials
        now == bookings[b].material_tables
    IN \E i \in 1..Len(now) :
          /\ i <= Len(was)
          /\ \E j \in 1..Len(now[i].lines) :
                /\ j <= Len(was[i].lines)
                /\ now[i].lines[j].amount # was[i].lines[j].amount

\* C20: for a booking with a baseline, when its placement date, the role of
\* one of its authorities or the amount of one of its material lines is not
\* what the baseline's payload holds, the current digest differs from the
\* baseline's and an issuance request is not served the baseline as
\* unchanged: it issues an amendment.
C20_DigestSensitive ==
    [][\A b \in DOMAIN bookings :
          ( /\ bookings[b].status # "CANCELLED"
            /\ resp'[b].status # "invalid_letter_date"
            /\ HasBaselineWithPayload(b)
            /\ PlacementDateChanged(b) \/ AuthorityRoleChanged(b) \/ LineAmountChanged(b)
            /\ IssuanceStep(b) )
          => /\ CurrentDigest(b) # BaselineDigest(b)
             /\ resp'[b].status = "modification_issued"
             /\ Len(letters') = Len(letters) + 1]_vars

\* C20 witness: an amendment whose payload differs from the baseline's in
\* nothing but the role of one authority (now LOADING, in the baseline UNLOADING)
C20_Witness ==
    \E b \in DOMAIN bookings :
        /\ Len(Modifications(b)) = 1
        /\ resp[b].status = "modification_issued"
        /\ AuthorityRoleChanged(b)
        /\ ~PlacementDateChanged(b)
        /\ ~LineAmountChanged(b)
        /\ LET base == Placements(b)[1].snapshot_json.canonical
               cur == Modifications(b)[1].snapshot_json.canonical
           IN /\ Len(base.unloading) = 1
              /\ cur.unloading = <<>>
              /\ HashCanonicalSnapshot(cur)
                   = [HashCanonicalSnapshot(base) EXCEPT !.loading = cur.loading,
                                                         !.unloading = cur.unloading]

(***************************************************************************)
(* Two bookings of one agreement, each issued and edited on its own.       *)
(***************************************************************************)
TwoBookingIds == {1, 2}

InitTwo ==
    /\ bookings = [b \in TwoBookingIds |-> InitialBooking(b)]
    /\ letters = <<>>
    /\ attachments = <<>>
    /\ resp = [b \in TwoBookingIds |-> OtherResponse]
    /\ reqs = [r \in ReqIds |-> IdleReq]

NextTwo ==
    \/ \E b \in DOMAIN bookings : GeneratePlacementAdvicePost(b)
    \/ \E b \in DOMAIN bookings : BookingDetailPost(b)

SpecTwo == InitTwo /\ [][NextTwo]_vars

\* the rows of booking b, of either letter type, in insertion order
RowsOf(tbl, b) == SelectSeq(tbl, LAMBDA row : row.booking_id = b)

\* C21: an issuance request for booking a adds, changes and removes no row of
\* another booking b, and the sequence number b's next row of either type
\* would receive is the same before and after the request (a request that
\* leaves the table as it is satisfies this at once).
C21_CrossBookingIndependence ==
    [][\A a, b \in DOMAIN bookings :
          (a # b /\ letters' # letters /\ IssuanceStep(a))
          => /\ RowsOf(letters', b) = RowsOf(letters, b)
             /\ \A t \in {"PLACEMENT", "PLACEMENT_MOD"} :
                   NextLetterSequence(letters', b, t) = NextLetterSequence(letters, b, t)]_vars

\* C21 witness: both bookings hold a baseline numbered 1, and one of them an
\* amendment numbered 1, written after the other booking's baseline
C21_Witness ==
    /\ Len(letters) = 3
    /\ letters[1].booking_id = 1 /\ letters[1].letter_type = "PLACEMENT"
    /\ letters[2].booking_id = 2 /\ letters[2].letter_type = "PLACEMENT"
    /\ letters[3].booking_id = 1 /\ letters[3].letter_type = "PLACEMENT_MOD"
    /\ \A i \in 1..3 : letters[i].sequence_no = 1

(***************************************************************************)
(* Enumeration order of the booking's collections.  booking_authorities is *)
(* a backref without order_by, lines are loaded ordered by sequence_index  *)
(* only, and neither sequence_index column is unique (both default to 1):  *)
(* the order in which rows of equal index are yielded is the database's    *)
(* choice at each load.                                                    *)
(***************************************************************************)
\* the enumerations of the rows of s
Enumerations(s) == { [i \in 1..Len(s) |-> s[p[i]]] : p \in Permutations(1..Len(s)) }

\* sequence_index pairs of two rows of one collection: distinct, or both the default
SequenceIndexPairs == { <<1, 2>>, <<1, 1>> }

\* a line of a material table
BookingMaterialLine(sequence_index, description, quantity, rate) ==
    [sequence_index |-> sequence_index, description |-> description, unit |-> "Nos",
     quantity |-> Some(quantity), rate |-> Some(rate), amount |-> Some(quantity * rate)]

\* states of booking b with two loading authorities, two material tables of
\* equal sequence_index, and two lines in the first table
OrderBookings(b) ==
    { [InitialBooking(b) EXCEPT
          !.booking_authorities =
              << BookingAuthority(1, b, 1, "LOADING", a[1]),
                 BookingAuthority(2, b, 2, "UNLOADING", 1),
                 BookingAuthority(3, b, 3, "LOADING", a[2]) >>,
          !.material_tables =
              << [id |-> 1, sequence_index |-> 1,
                  booking_authority_id |-> 1, to_booking_authority_id |-> 2,
                  mode |-> "ITEM", total_quantity |-> None, total_quantity_unit |-> "",
                  total_amount |-> Some(110),
                  lines |-> << BookingMaterialLine(l[1], "Cable drum", 10, 5),
                               BookingMaterialLine(l[2], "Insulator", 20, 3) >>],
                 [id |-> 2, sequence_index |-> 1,
                  booking_authority_id |-> 3, to_booking_authority_id |-> 2,
                  mode |-> "ITEM", total_quantity |-> None, total_quantity_unit |-> "",
                  total_amount |-> Some(50),
                  lines |-> << BookingMaterialLine(1, "Cable drum", 10, 5) >>] >>] :
        a \in SequenceIndexPairs, l \in SequenceIndexPairs }

\* the same rows of booking bk, as another load may enumerate them
EnumerationsOfBooking(bk) ==
    { [bk EXCEPT !.booking_authorities = bas,
                 !.material_tables =
                     [i \in 1..Len(mts) |->
                         IF mts[i].id = 1 THEN [mts[i] EXCEPT !.lines = lns] ELSE mts[i]]] :
        bas \in Enumerations(bk.booking_authorities),
        mts \in Enumerations(bk.material_tables),
        lns \in Enumerations(SelectSeq(bk.material_tables, LAMBDA mt : mt.id = 1)[1].lines) }

InitOrder ==
    /\ \E bk \in OrderBookings(1) : bookings = [b \in InitialBookingIds |-> bk]
    /\ letters = <<>>
    /\ attachments = <<>>
    /\ resp = [b \in InitialBookingIds |-> OtherResponse]
    /\ reqs = [r \in ReqIds |-> IdleReq]

\* the session loads booking b's collections afresh
ReloadBooking(b) ==
    /\ \E bk \in EnumerationsOfBooking(bookings[b]) : bookings' = [bookings EXCEPT ![b] = bk]
    /\ UNCHANGED <<letters, attachments, resp, reqs>>

NextOrder ==
    \/ \E b \in DOMAIN bookings : GeneratePlacementAdvicePost(b)
    \/ \E b \in DOMAIN bookings : ReloadBooking(b)

SpecOrder == InitOrder /\ [][NextOrder]_vars

DistinctSequenceIndexes(bk) ==
    /\ \A i, j \in 1..Len(bk.booking_authorities) :
          (i # j /\ bk.booking_authorities[i].role = bk.booking_authorities[j].role)
          => bk.booking_authorities[i].sequence_index # bk.booking_authorities[j].sequence_index
    /\ \A t \in 1..Len(bk.material_tables) :
          \A i, j \in 1..Len(bk.material_tables[t].lines) :
             i # j => bk.material_tables[t].lines[i].sequence_index
                        # bk.material_tables[t].lines[j].sequence_index

\* the projection is independent of the enumeration when no two rows tie
EnumerationOrderIrrelevantWithoutTies ==
    \A b \in DOMAIN bookings :
       DistinctSequenceIndexes(bookings[b])
       => \A bk \in EnumerationsOfBooking(bookings[b]) :
             BuildCanonicalSnapshotForPlacement([bookings EXCEPT ![b] = bk], b, Date(2024, 1, 9))
               = BuildCanonicalSnapshotForPlacement(bookings, b, Date(2024, 1, 9))

(***************************************************************************)
(* generate_placement_advice, GET: the download of the issued baseline     *)
(* PDF (download=1) and the form with its preview flags.  The baseline row *)
(* may have been written before the digest left the letter date out, or    *)
(* without a digest.                                                       *)
(***************************************************************************)
\* the template context of the form
FormResponse(letter_id, requires_attachment, baseline_has_snapshot, changes_detected) ==
    [status |-> "form", letter_id |-> letter_id, pdf |-> Null,
     requires_attachment |-> requires_attachment,
     baseline_has_snapshot |-> baseline_has_snapshot,
     changes_detected |-> changes_detected]

\* the response of GET /letters/placement/<b>[?download=1]; pdf_exists: the
\* baseline's PDF is still in storage
PlanGet(bks, tbl, b, download, pdf_exists, today) ==
    LET bk == bks[b]
        baseline == BaselineLetterQuery(tbl, b)
        requires_attachment == BookingRequiresAttachmentPdf(bk)
        base_canon == baseline[1].snapshot_json.canonical
        base_hash_stored == baseline[1].snapshot_json.content_hash
        baseline_has_snapshot == baseline # None /\ Truthy(base_canon) /\ Truthy(base_hash_stored)
        current_canon == BuildCanonicalSnapshotForPlacement(bks, b, today)
        changes_detected == /\ baseline_has_snapshot
                            /\ HashCanonicalSnapshot(current_canon) # HashCanonicalSnapshot(base_canon)
    IN IF download /\ (baseline = None \/ ~Truthy(baseline[1].pdf_path))
         THEN Response("no_issued_pdf", 0, Null)
       ELSE IF download /\ ~pdf_exists
         THEN Response("issued_pdf_missing", 0, Null)
       ELSE IF download
         THEN Response("download", baseline[1].id, baseline[1].pdf_path)
       ELSE IF IsCancelled(bk)
         THEN Response("cancelled", 0, Null)
       ELSE FormResponse(IF baseline = None THEN 0 ELSE baseline[1].id,
                         requires_attachment /\ baseline = None,
                         baseline_has_snapshot, changes_detected)

\* variant: a GET is handled as a POST with an empty form
GeneratePlacementAdviceGetAsPost(b) ==
    \E today \in TodayDates :
        LET plan == PlanPost(bookings, letters, b, <<>>, NoFile, today)
        IN /\ Len(LettersAfter(letters, plan)) <= MaxLetters
           /\ letters' = LettersAfter(letters, plan)
           /\ attachments' = AttachmentsAfter(attachments, letters, plan)
           /\ resp' = [resp EXCEPT ![b] = ResponseAfter(letters, plan)]
           /\ UNCHANGED <<bookings, reqs>>

\* GET /letters/placement/<b>[?download=1]
GeneratePlacementAdviceGet(b) ==
    \E download \in BOOLEAN, pdf_exists \in BOOLEAN, today \in TodayDates :
        /\ resp' = [resp EXCEPT ![b] = PlanGet(bookings, letters, b, download, pdf_exists, today)]
        /\ UNCHANGED <<bookings, letters, attachments, reqs>>

\* the baseline row the route writes for the booking as created
IssuedBaseline(b) ==
    LettersAfter(<<>>, PlanPost([x \in InitialBookingIds |-> InitialBooking(x)], <<>>, b,
                                <<>>, NoFile, Date(2024, 1, 9)))[1]

\* the digest under the earlier hash rule, which digested the whole payload
\* ("recompute baseline hash from canonical using current rules")
EarlierRuleHash(payload) == payload

\* content_hash values found in a baseline row whose payload is stored: the
\* digest of the payload, the digest under the earlier rule, or none
StoredHashes(row) ==
    { HashCanonicalSnapshot(row.snapshot_json.canonical),
      EarlierRuleHash(row.snapshot_json.canonical),
      Null }

\* table tbl with the stored content_hash of b's baseline row set to h
WithStoredHash(tbl, b, h) ==
    [i \in 1..Len(tbl) |->
        IF BaselineLetterQuery(tbl, b) # None /\ tbl[i].id = BaselineLetterQuery(tbl, b)[1].id
        THEN [tbl[i] EXCEPT !.snapshot_json.content_hash = h]
        ELSE tbl[i]]

InitGet ==
    /\ bookings = [b \in InitialBookingIds |-> InitialBooking(b)]
    /\ \/ letters = <<>>
       \/ \E h \in StoredHashes(IssuedBaseline(1)) :
             letters = WithStoredHash(<< IssuedBaseline(1) >>, 1, h)
    /\ attachments = <<>>
    /\ resp = [b \in InitialBookingIds |-> OtherResponse]
    /\ reqs = [r \in ReqIds |-> IdleReq]

NextGet ==
    \/ \E b \in DOMAIN bookings : GeneratePlacementAdviceGet(b)
    \/ \E b \in DOMAIN bookings : GeneratePlacementAdvicePost(b)
    \/ \E b \in DOMAIN bookings : BookingDetailPost(b)
    \/ \E b \in DOMAIN bookings : CancelBooking(b)

SpecGet == InitGet /\ [][NextGet]_vars

\* C23: for a baseline row whose canonical payload is stored, what an issuance
\* request does (serve the baseline or write an amendment, and the row written,
\* base_content_hash included) is the same whatever content_hash the baseline
\* row holds: the right digest, a digest under the earlier rule, or none.
C23_StoredDigestNeverTrusted ==
    \A b \in DOMAIN bookings :
       HasBaselineWithPayload(b)
       => \A h \in StoredHashes(Placements(b)[1]), letter_date_str \in LetterDateInputs, today \in TodayDates :
             PlanPost(bookings, WithStoredHash(letters, b, h), b, letter_date_str, NoFile, today)
               = PlanPost(bookings, letters, b, letter_date_str, NoFile, today)

\* C23 witness: the baseline row holds a content_hash that is not the digest of
\* its payload, or none, and an amendment was written against it whose
\* base_content_hash is the digest of the stored payload
C23_Witness ==
    \E b \in DOMAIN bookings :
        /\ HasBaselineWithPayload(b)
        /\ Placements(b)[1].snapshot_json.content_hash # BaselineDigest(b)
        /\ Modifications(b) # <<>>
        /\ Modifications(b)[1].snapshot_json.base_content_hash = BaselineDigest(b)
        /\ resp[b].status = "modification_issued"

\* C24: every PLACEMENT_MOD row belongs to a booking that has a PLACEMENT row,
\* and its base_letter_id is the id of that booking's baseline row.
C24_AmendmentHasBaseline ==
    \A i \in 1..Len(letters) :
       letters[i].letter_type = "PLACEMENT_MOD"
       => /\ Placements(letters[i].booking_id) # <<>>
          /\ letters[i].snapshot_json.base_letter_id
               = Placements(letters[i].booking_id)[1].id
          /\ letters[i].snapshot_json.base_letter_type = "PLACEMENT"

\* C24 witness: both bookings have a baseline, the second booking's baseline is
\* row 2, and an amendment of the second booking refers to it
C24_Witness ==
    /\ Len(letters) = 3
    /\ letters[1].booking_id = 1 /\ letters[1].letter_type = "PLACEMENT"
    /\ letters[2].booking_id = 2 /\ letters[2].letter_type = "PLACEMENT"
    /\ letters[3].booking_id = 2 /\ letters[3].letter_type = "PLACEMENT_MOD"
    /\ letters[3].snapshot_json.base_letter_id = 2

(***************************************************************************)
(* A request that fails after it has read the next sequence number: the    *)
(* renderer (or the attachment merge) raises, the exception leaves the     *)
(* handler before db.session.commit, and the session is discarded with the *)
(* request.  Requests are handled one at a time here.                      *)
(***************************************************************************)
\* the response to a request whose handler raised
ServerError == Response("server_error", 0, Null)

\* variant: the row is added and committed before the PDF is rendered
RequestFailKeepingRow(r) ==
    /\ reqs[r].pc = "rendered"
    /\ Len(letters) < MaxLetters
    /\ letters' = LettersAfter(letters, reqs[r].plan)
    /\ resp' = [resp EXCEPT ![reqs[r].booking_id] = ServerError]
    /\ reqs' = [reqs EXCEPT ![r] = IdleReq]
    /\ UNCHANGED <<bookings, attachments>>

\* the handler raises between _next_letter_sequence and db.session.commit
RequestFail(r) ==
    /\ reqs[r].pc = "rendered"
    /\ resp' = [resp EXCEPT ![reqs[r].booking_id] = ServerError]
    /\ reqs' = [reqs EXCEPT ![r] = IdleReq]
    /\ UNCHANGED <<bookings, letters, attachments>>

NextFail ==
    \/ \E b \in DOMAIN bookings : RequestBegin(1, b)
    \/ RequestCommit(1)
    \/ RequestFail(1)
    \/ \E b \in DOMAIN bookings : BookingDetailPost(b)
    \/ \E b \in DOMAIN bookings : BookingMaterialsEdit(b)

SpecFail == Init /\ [][NextFail]_vars

\* the sequence numbers of b's rows of one type are 1, 2, ..., one per row
NoGap(tbl, b, letter_type) ==
    SeqNos(tbl, b, letter_type) = 1..Len(LettersOf(tbl, b, letter_type))

\* C25: a request that fails after reading the next sequence number and before
\* its commit writes no row, and the number it had read is still the one the
\* next request for the same booking and letter type receives; the numbers of
\* the rows of a booking and type stay 1, 2, ..., without a gap, and a request
\* that commits writes the next number.
C25_SequenceNeverAbandoned ==
    [][\A r \in ReqIds :
          LET b == reqs[r].booking_id
              t == reqs[r].plan.row.letter_type
          IN (reqs[r].pc = "rendered" /\ reqs'[r].pc = "idle")
             => /\ NoGap(letters', b, t)
                /\ resp'[b] = ServerError
                   => /\ letters' = letters
                      /\ attachments' = attachments
                      /\ NextLetterSequence(letters', b, t) = reqs[r].plan.row.sequence_no
                /\ resp'[b] # ServerError
                   => /\ Len(letters') = Len(letters) + 1
                      /\ letters'[Len(letters')].sequence_no = NextLetterSequence(letters, b, t)]_vars

\* C25 witness: an amendment request failed, no amendment row exists, and the
\* next request for the booking has read sequence number 1 again
C25_Witness ==
    \E b \in DOMAIN bookings :
        /\ resp[b] = ServerError
        /\ Placements(b) # <<>>
        /\ Modifications(b) = <<>>
        /\ reqs[1].pc = "rendered"
        /\ reqs[1].booking_id = b
        /\ reqs[1].plan.row.letter_type = "PLACEMENT_MOD"
        /\ reqs[1].plan.row.sequence_no = 1

\* C26: no row is ever written for a booking whose cancellation is committed,
\* also when the cancellation commits between an issuance request's
\* is_cancelled check and that request's own commit.
C26_NoRecordAfterCancellation ==
    [][\A b \in DOMAIN bookings :
          bookings[b].status = "CANCELLED" => RowsOf(letters', b) = RowsOf(letters, b)]_vars

\* C27: every PLACEMENT_MOD row stores a diff list with at least one entry.
C27_AmendmentDiffNonEmpty ==
    \A i \in 1..Len(letters) :
       letters[i].letter_type = "PLACEMENT_MOD" => letters[i].snapshot_json.diffs # <<>>

\* the form GET /letters/placement/<b> shows in the current state
Preview(b, today) == PlanGet(bookings, letters, b, FALSE, TRUE, today)

\* what a POST with an acceptable letter date does in the current state
PostPlans(b, today) ==
    { PlanPost(bookings, letters, b, letter_date_str, NoFile, today) :
        letter_date_str \in { d \in LetterDateInputs : d = <<>> \/ ParseIsoDate(d) # None } }

PreviewAgreesWhenHashStored ==
    \A b \in DOMAIN bookings, today \in TodayDates :
       ( /\ bookings[b].status # "CANCELLED"
         /\ Placements(b) # <<>>
         /\ Truthy(Placements(b)[1].snapshot_json.canonical)
              => Truthy(Placements(b)[1].snapshot_json.content_hash) )
       => \A plan \in PostPlans(b, today) :
             Preview(b, today).changes_detected
               <=> (plan.write /\ plan.row.letter_type = "PLACEMENT_MOD")

\* C29: a GET of the placement-advice endpoint, for the form or with
\* download=1, whether the booking is cancelled or not, leaves the bookings,
\* the letter rows and the attachment rows as they were, and the next sequence
\* number of either letter type is the same after it as before.
C29_GetWritesNothing ==
    [][\A b \in DOMAIN bookings :
          GeneratePlacementAdviceGet(b)
          => /\ letters' = letters
             /\ attachments' = attachments
             /\ bookings' = bookings
             /\ \A t \in {"PLACEMENT", "PLACEMENT_MOD"} :
                   NextLetterSequence(letters', b, t) = NextLetterSequence(letters, b, t)]_vars

\* C29 witness: the booking is cancelled, has a baseline and an amendment, and
\* the last request for it was a GET with download=1 that served the baseline
C29_Witness ==
    \E b \in DOMAIN bookings :
        /\ bookings[b].status = "CANCELLED"
        /\ Placements(b) # <<>>
        /\ Modifications(b) # <<>>
        /\ resp[b] = Response("download", Placements(b)[1].id, Placements(b)[1].pdf_path)

(***************************************************************************)
(* Booking creation.  A new booking gets the next id and belongs to the    *)
(* agreement that is active when it is created; no route deletes a booking *)
(* or moves it to another agreement.                                       *)
(***************************************************************************)
MaxBookings == 2

\* POST of the booking form: _create_booking_core with the form of InitialBooking
CreateBooking ==
    \E agreement_id \in DOMAIN AgreementRows :
        LET id == Max(DOMAIN bookings) + 1
            bk == [InitialBooking(id) EXCEPT
                      !.agreement_id = agreement_id,
                      !.company_id = AgreementRows[agreement_id].company_id]
        IN /\ id <= MaxBookings
           /\ bookings' = [x \in DOMAIN bookings \cup {id} |->
                              IF x = id THEN bk ELSE bookings[x]]
           /\ resp' = [x \in DOMAIN bookings \cup {id} |->
                          IF x = id THEN OtherResponse ELSE resp[x]]
           /\ UNCHANGED <<letters, attachments, reqs>>

NextTrip ==
    \/ CreateBooking
    \/ \E b \in DOMAIN bookings : CancelBooking(b)
    \/ \E b \in DOMAIN bookings : GeneratePlacementAdvicePost(b)

SpecTrip == Init /\ [][NextTrip]_vars

\* C30: a booking's trip serial is the same after every step as before it,
\* whatever bookings are created or cancelled, and since no booking's own
\* state is edited here, no amendment row is ever written.
C30_TripSerialStable ==
    [][/\ \A b \in DOMAIN bookings :
             /\ b \in DOMAIN bookings'
             /\ ComputeTripSerial(bookings', b) = ComputeTripSerial(bookings, b)
       /\ \A i \in 1..Len(letters') : letters'[i].letter_type # "PLACEMENT_MOD"]_vars

\* C30 witness: booking 2, of the same agreement as booking 1, has its
\* baseline with trip serial 2, booking 1 is cancelled, and the last request
\* for booking 2 was served that baseline
C30_Witness ==
    /\ DOMAIN bookings = {1, 2}
    /\ bookings[1].status = "CANCELLED"
    /\ bookings[2].agreement_id = bookings[1].agreement_id
    /\ Placements(1) # <<>>
    /\ Placements(2) # <<>>
    /\ Placements(2)[1].snapshot_json.canonical.trip_serial = 2
    /\ ComputeTripSerial(bookings, 2) = 2
    /\ resp[2] = Response("baseline_unchanged", Placements(2)[1].id, Placements(2)[1].pdf_path)
====
